---- MODULE Spec2Model ----
(***************************************************************************)
(* The daemon supervisor of desktop/src-tauri/src/main.rs: the health      *)
(* prober (check_daemon), the launcher (start_daemon), the two commands    *)
(* (get_daemon_status, ensure_daemon) and the warm-up task spawned by      *)
(* main's setup hook, together with the environment they act on: the       *)
(* health endpoint, the HOME variable, the spawnable executables and the   *)
(* daemon processes handed to the operating system.                        *)
(***************************************************************************)
EXTENDS Naturals, Sequences, FiniteSets, TLC

VARIABLES
    app,        \* the host application: "setup", "running" or "panicked"
    window,     \* whether a webview window labelled "main" exists
    target_os,  \* the platform the binary was built for
    home,       \* the HOME environment variable
    fs,         \* the paths Command::new(path).spawn() succeeds on
    endpoint,   \* what GET http://localhost:8080/api/health answers now
    procs,      \* the daemon processes spawned so far, in order
    warm,       \* the warm-up task of main's setup hook
    ens,        \* the ensure_daemon invocations, one record per caller
    ncalls,     \* how many times each caller has invoked ensure_daemon
    stat,       \* the latest get_daemon_status invocation
    always_up   \* history: the endpoint has answered success-class ever since the start

vars == <<app, window, target_os, home, fs, endpoint, procs, warm, ens, ncalls, stat, always_up>>

(***************************************************************************)
(* Bounds of the model.                                                    *)
(***************************************************************************)
\* successive ensure_daemon invocations of one caller
MaxCalls == 2

\* the callers of ensure_daemon that may be in flight together
Callers == {"a", "b"}

(***************************************************************************)
(* Result<String, String> and Result<(), String>.                          *)
(***************************************************************************)
Ok(v) == [tag |-> "Ok", val |-> v]
Err(m) == [tag |-> "Err", val |-> m]
NoResult == [tag |-> "None", val |-> ""]

(***************************************************************************)
(* The health endpoint: what reqwest::get resolves to.                     *)
(***************************************************************************)
Response(code) == [kind |-> "Ok", status |-> code, err |-> ""]
Failure(e) == [kind |-> "Err", status |-> 0, err |-> e]

StatusCodes == {200, 204, 299, 300, 404, 500}
TransportErrors == {"refused", "timeout", "other"}
AllEndpoints == {Response(s) : s \in StatusCodes} \cup {Failure(e) : e \in TransportErrors}
\* the behaviours the concurrent specification moves between
MainEndpoints == {Response(200), Response(500), Failure("refused")}

\* StatusCode::is_success: 200..=299
is_success(status) == status >= 200 /\ status < 300

\* check_daemon: one request, reduced to a boolean
\* mutant: any response at all counts as healthy
check_daemon_any_response(ep) ==
    [ret |-> ep.kind = "Ok", reqs |-> 1]
check_daemon(ep) ==
    IF ep.kind = "Ok"
    THEN [ret |-> is_success(ep.status), reqs |-> 1]
    ELSE [ret |-> FALSE, reqs |-> 1]

(***************************************************************************)
(* The launcher.                                                           *)
(***************************************************************************)
HomeSet(v) == [ok |-> TRUE, val |-> v]
HomeUnset == [ok |-> FALSE, val |-> ""]

\* std::env::var("HOME").unwrap_or_default()
unwrap_or_default(h) == IF h.ok THEN h.val ELSE ""

binary(os) == IF os = "windows" THEN "ugudu.exe" ELSE "ugudu"

\* mutant: the bare name is tried before the install directories
paths_bare_first(os, h) ==
    << binary(os),
       "/usr/local/bin/" \o binary(os),
       unwrap_or_default(h) \o "/.local/bin/" \o binary(os),
       unwrap_or_default(h) \o "/go/bin/" \o binary(os) >>
paths(os, h) ==
    << "/usr/local/bin/" \o binary(os),
       unwrap_or_default(h) \o "/.local/bin/" \o binary(os),
       unwrap_or_default(h) \o "/go/bin/" \o binary(os),
       binary(os) >>

NotFoundMsg == "Could not find or start ugudu daemon"

\* Command::new(&path).arg("daemon").spawn() is Ok
spawn_ok(path, files) == path \in files

\* the for loop of start_daemon over the remaining candidates
RECURSIVE try_paths(_, _, _)
try_paths(rest, files, tried) ==
    IF rest = <<>>
    THEN [res |-> Err(NotFoundMsg), tried |-> tried, spawned |-> <<>>]
    ELSE IF spawn_ok(Head(rest), files)
         THEN [res |-> Ok("()"), tried |-> Append(tried, Head(rest)),
               spawned |-> <<Head(rest)>>]
         ELSE try_paths(Tail(rest), files, Append(tried, Head(rest)))

start_daemon(os, h, files) == try_paths(paths(os, h), files, <<>>)

(***************************************************************************)
(* What one invocation has done so far: its probes, launch cycles and      *)
(* sleeps in the order they happened.                                      *)
(***************************************************************************)
ProbeEv(r) == [ev |-> "probe", ok |-> r, ms |-> 0]
LaunchEv(started) == [ev |-> "launch", ok |-> started, ms |-> 0]
SleepEv(d) == [ev |-> "sleep", ok |-> TRUE, ms |-> d]

Events(log, kind) == SelectSeq(log, LAMBDA x : x.ev = kind)
Count(log, kind) == Len(Events(log, kind))

(***************************************************************************)
(* ensure_daemon.                                                          *)
(***************************************************************************)
\* mutant: the loop written 0..=30
RetryBudget_inclusive == 30 + 1
RetryBudget == 30
PollIntervalMs == 500

FailedMsg == "Daemon failed to start"

EnsIdle ==
    [pc |-> "idle", i |-> 0, log |-> <<>>, reqs |-> 0,
     tried |-> <<>>, spawned |-> <<>>, result |-> NoResult]
EnsStart == [EnsIdle EXCEPT !.pc = "check"]

Probed(e, r) == [e EXCEPT !.log = Append(@, ProbeEv(r.ret)), !.reqs = @ + r.reqs]
Returned(e, res) == [e EXCEPT !.pc = "done", !.result = res]

\* mutant: the early return of lines 56-58 is missing
ensure_check_no_return(e, ep) ==
    LET r == check_daemon(ep)
    IN  [Probed(e, r) EXCEPT !.pc = "launch"]

\* lines 56-58
ensure_check(e, ep) ==
    LET r == check_daemon(ep)
    IN  IF r.ret
        THEN Returned(Probed(e, r), Ok("already_running"))
        ELSE [Probed(e, r) EXCEPT !.pc = "launch"]

\* mutant: the next attempt is made without sleeping first
loop_head_no_sleep(e) ==
    IF e.i < RetryBudget
    THEN [e EXCEPT !.pc = "poll"]
    ELSE Returned(e, Err(FailedMsg))

\* the head of `for _ in 0..30`: another iteration, or the Err after the loop
loop_head(e) ==
    IF e.i < RetryBudget
    THEN [e EXCEPT !.pc = "sleep"]
    ELSE Returned(e, Err(FailedMsg))

\* mutant: the launcher's error is dropped instead of propagated
ensure_launch_ignore_err(e, l) ==
    loop_head([e EXCEPT !.log = Append(@, LaunchEv(l.res.tag = "Ok")),
                        !.tried = @ \o l.tried,
                        !.spawned = @ \o l.spawned])

\* mutant: a failed launch is reported with the timeout message
ensure_launch_wrong_msg(e, l) ==
    LET e1 == [e EXCEPT !.log = Append(@, LaunchEv(l.res.tag = "Ok")),
                        !.tried = @ \o l.tried,
                        !.spawned = @ \o l.spawned]
    IN  IF l.res.tag = "Err"
        THEN Returned(e1, Err(FailedMsg))
        ELSE loop_head(e1)

\* line 61: start_daemon()?
ensure_launch(e, l) ==
    LET e1 == [e EXCEPT !.log = Append(@, LaunchEv(l.res.tag = "Ok")),
                        !.tried = @ \o l.tried,
                        !.spawned = @ \o l.spawned]
    IN  IF l.res.tag = "Err"
        THEN Returned(e1, Err(l.res.val))
        ELSE loop_head(e1)

\* line 65
ensure_sleep(e) ==
    [e EXCEPT !.log = Append(@, SleepEv(PollIntervalMs)), !.pc = "poll"]

\* mutant: a Reachable poll does not end the loop
ensure_poll_no_return(e, ep) ==
    LET r == check_daemon(ep)
    IN  loop_head([Probed(e, r) EXCEPT !.i = @ + 1])

\* mutant: a Reachable poll is confirmed by a second probe before returning
ensure_poll_confirm(e, ep) ==
    LET r == check_daemon(ep)
    IN  IF r.ret
        THEN Returned(Probed(Probed(e, r), r), Ok("started"))
        ELSE loop_head([Probed(e, r) EXCEPT !.i = @ + 1])

\* mutant: an Unreachable poll runs the launcher again before the next attempt
ensure_poll_relaunch(e, ep) ==
    LET r == check_daemon(ep)
    IN  IF r.ret
        THEN Returned(Probed(e, r), Ok("started"))
        ELSE IF e.i + 1 < RetryBudget
             THEN [Probed(e, r) EXCEPT !.i = @ + 1, !.pc = "launch"]
             ELSE Returned([Probed(e, r) EXCEPT !.i = @ + 1], Err(FailedMsg))

\* lines 66-68
ensure_poll(e, ep) ==
    LET r == check_daemon(ep)
    IN  IF r.ret
        THEN Returned(Probed(e, r), Ok("started"))
        ELSE loop_head([Probed(e, r) EXCEPT !.i = @ + 1])

(***************************************************************************)
(* The warm-up task of main's setup hook.                                  *)
(***************************************************************************)
GraceMs == 2000

WarmInit ==
    [pc |-> "unspawned", log |-> <<>>, reqs |-> 0,
     tried |-> <<>>, spawned |-> <<>>, out |-> NoResult]

\* line 84
warm_check(w, ep) ==
    LET r == check_daemon(ep)
        w1 == [w EXCEPT !.log = Append(@, ProbeEv(r.ret)), !.reqs = @ + r.reqs]
    IN  IF ~r.ret
        THEN [w1 EXCEPT !.pc = "launch"]
        ELSE [w1 EXCEPT !.pc = "done", !.out = Ok("()")]

\* mutant: the launcher's error ends the task instead of being discarded
warm_launch_propagate(w, l) ==
    LET w1 == [w EXCEPT !.log = Append(@, LaunchEv(l.res.tag = "Ok")),
                        !.tried = @ \o l.tried,
                        !.spawned = @ \o l.spawned]
    IN  IF l.res.tag = "Err"
        THEN [w1 EXCEPT !.pc = "done", !.out = l.res]
        ELSE [w1 EXCEPT !.pc = "grace"]

\* line 85: let _ = start_daemon();
warm_launch(w, l) ==
    [w EXCEPT !.log = Append(@, LaunchEv(l.res.tag = "Ok")),
              !.tried = @ \o l.tried,
              !.spawned = @ \o l.spawned,
              !.pc = "grace"]

\* line 87
warm_grace(w) ==
    [w EXCEPT !.log = Append(@, SleepEv(GraceMs)), !.pc = "done", !.out = Ok("()")]

(***************************************************************************)
(* get_daemon_status.                                                      *)
(***************************************************************************)
NotRunningMsg == "Daemon is not running"

StatIdle ==
    [pc |-> "idle", log |-> <<>>, reqs |-> 0, seen |-> Failure("none"),
     spawned |-> <<>>, result |-> NoResult]

\* mutant: the status query starts the daemon when it finds it down
get_daemon_status_launching(ep, os, h, files) ==
    LET r == check_daemon(ep)
        l == start_daemon(os, h, files)
    IN  [pc |-> "done", log |-> <<ProbeEv(r.ret)>>, reqs |-> r.reqs, seen |-> ep,
         spawned |-> IF r.ret THEN <<>> ELSE l.spawned,
         result |-> IF r.ret THEN Ok("running") ELSE Err(NotRunningMsg)]

get_daemon_status(ep, os, h, files) ==
    LET r == check_daemon(ep)
    IN  [pc |-> "done", log |-> <<ProbeEv(r.ret)>>, reqs |-> r.reqs, seen |-> ep,
         spawned |-> <<>>,
         result |-> IF r.ret THEN Ok("running") ELSE Err(NotRunningMsg)]

(***************************************************************************)
(* The state after construction and the steps.                             *)
(***************************************************************************)
Platforms == {"linux", "windows"}
Homes == {HomeUnset, HomeSet("/home/u")}

Candidates(os, h) == {paths(os, h)[k] : k \in 1..4}
\* every path a candidate list of the platform can name
FsUniverse(os) == UNION {Candidates(os, h) : h \in Homes}
\* the file systems the concurrent specification starts from: nothing installed,
\* a system-wide install, a Go install that is also on the search path
MainFs(os, h) ==
    {{}, {paths(os, h)[1]}, {paths(os, h)[3], paths(os, h)[4]}}

\* a response with a success-class status code (2xx)
SuccessClass(ep) == ep.kind = "Ok" /\ ep.status \in 200..299

InitWith(oss, hs, eps) ==
    /\ app = "setup"
    /\ window \in BOOLEAN
    /\ target_os \in oss
    /\ home \in hs
    /\ endpoint \in eps
    /\ procs = <<>>
    /\ warm = WarmInit
    /\ ens = [c \in Callers |-> EnsIdle]
    /\ ncalls = [c \in Callers |-> 0]
    /\ stat = StatIdle
    /\ always_up = SuccessClass(endpoint)

Env == <<window, target_os, home, fs>>

\* lines 78-91: the setup hook
Setup ==
    /\ app = "setup"
    /\ IF window
       THEN app' = "running" /\ warm' = [warm EXCEPT !.pc = "check"]
       ELSE app' = "panicked" /\ warm' = warm
    /\ UNCHANGED <<Env, endpoint, procs, ens, ncalls, stat, always_up>>

WarmProbe ==
    /\ warm.pc = "check"
    /\ warm' = warm_check(warm, endpoint)
    /\ UNCHANGED <<app, Env, endpoint, procs, ens, ncalls, stat, always_up>>

WarmLaunch ==
    /\ warm.pc = "launch"
    /\ LET l == start_daemon(target_os, home, fs)
       IN  /\ warm' = warm_launch(warm, l)
           /\ procs' = procs \o l.spawned
    /\ UNCHANGED <<app, Env, endpoint, ens, ncalls, stat, always_up>>

WarmGrace ==
    /\ warm.pc = "grace"
    /\ warm' = warm_grace(warm)
    /\ UNCHANGED <<app, Env, endpoint, procs, ens, ncalls, stat, always_up>>

Invoke(c) ==
    /\ app = "running"
    /\ ens[c].pc \in {"idle", "done"}
    /\ ncalls[c] < MaxCalls
    /\ ens' = [ens EXCEPT ![c] = EnsStart]
    /\ ncalls' = [ncalls EXCEPT ![c] = @ + 1]
    /\ UNCHANGED <<app, Env, endpoint, procs, warm, stat, always_up>>

InitialProbe(c) ==
    /\ ens[c].pc = "check"
    /\ ens' = [ens EXCEPT ![c] = ensure_check(@, endpoint)]
    /\ UNCHANGED <<app, Env, endpoint, procs, warm, ncalls, stat, always_up>>

\* mutant: a process-wide gate lets only the first launch step spawn
Launch_gated(c) ==
    /\ ens[c].pc = "launch"
    /\ LET l == IF procs = <<>>
                THEN start_daemon(target_os, home, fs)
                ELSE [res |-> Ok("()"), tried |-> <<>>, spawned |-> <<>>]
       IN  /\ ens' = [ens EXCEPT ![c] = ensure_launch(@, l)]
           /\ procs' = procs \o l.spawned
    /\ UNCHANGED <<app, Env, endpoint, warm, ncalls, stat, always_up>>

Launch(c) ==
    /\ ens[c].pc = "launch"
    /\ LET l == start_daemon(target_os, home, fs)
       IN  /\ ens' = [ens EXCEPT ![c] = ensure_launch(@, l)]
           /\ procs' = procs \o l.spawned
    /\ UNCHANGED <<app, Env, endpoint, warm, ncalls, stat, always_up>>

Sleep(c) ==
    /\ ens[c].pc = "sleep"
    /\ ens' = [ens EXCEPT ![c] = ensure_sleep(@)]
    /\ UNCHANGED <<app, Env, endpoint, procs, warm, ncalls, stat, always_up>>

Poll(c) ==
    /\ ens[c].pc = "poll"
    /\ ens' = [ens EXCEPT ![c] = ensure_poll(@, endpoint)]
    /\ UNCHANGED <<app, Env, endpoint, procs, warm, ncalls, stat, always_up>>

StatusCheck ==
    /\ app = "running"
    /\ LET s == get_daemon_status(endpoint, target_os, home, fs)
       IN  /\ stat' = s
           /\ procs' = procs \o s.spawned
    /\ UNCHANGED <<app, Env, endpoint, warm, ens, ncalls, always_up>>

\* the daemon, or whatever else owns port 8080, changes what the endpoint answers
EndpointChange(eps) ==
    /\ endpoint' \in eps \ {endpoint}
    /\ always_up' = (always_up /\ SuccessClass(endpoint'))
    /\ UNCHANGED <<app, Env, procs, warm, ens, ncalls, stat>>

(***************************************************************************)
(* The supervisor with the warm-up, one ensure_daemon caller and           *)
(* get_daemon_status in flight together.                                   *)
(***************************************************************************)
Init ==
    /\ InitWith({"linux"}, Homes, MainEndpoints)
    /\ fs \in MainFs(target_os, home)

Next ==
    \/ Setup
    \/ WarmProbe
    \/ WarmLaunch
    \/ WarmGrace
    \/ Invoke("a")
    \/ InitialProbe("a")
    \/ Launch("a")
    \/ Sleep("a")
    \/ Poll("a")
    \/ StatusCheck
    \/ EndpointChange(MainEndpoints)

Spec == Init /\ [][Next]_vars

\* every step of a call in flight is eventually taken: probes and sleeps complete
Fairness ==
    /\ WF_vars(InitialProbe("a"))
    /\ WF_vars(Launch("a"))
    /\ WF_vars(Sleep("a"))
    /\ WF_vars(Poll("a"))

FairSpec == Spec /\ Fairness

(***************************************************************************)
(* The launcher on every platform, HOME setting and file system.           *)
(***************************************************************************)
InitLaunch ==
    /\ InitWith(Platforms, Homes, {Response(200), Failure("refused")})
    /\ fs \in SUBSET FsUniverse(target_os)

NextLaunch ==
    \/ Setup
    \/ WarmProbe
    \/ WarmLaunch
    \/ WarmGrace
    \/ Invoke("a")
    \/ InitialProbe("a")
    \/ Launch("a")

SpecLaunch == InitLaunch /\ [][NextLaunch]_vars

(***************************************************************************)
(* The prober against every behaviour of the endpoint.                     *)
(***************************************************************************)
InitProbe ==
    /\ InitWith({"linux"}, {HomeSet("/home/u")}, AllEndpoints)
    /\ fs \in {{}, {paths(target_os, home)[4]}}

NextProbe ==
    \/ Setup
    \/ WarmProbe
    \/ WarmLaunch
    \/ WarmGrace
    \/ StatusCheck
    \/ EndpointChange(AllEndpoints)

SpecProbe == InitProbe /\ [][NextProbe]_vars

(***************************************************************************)
(* Two ensure_daemon invocations and the warm-up in flight together.       *)
(***************************************************************************)
RaceEndpoints == {Response(200), Failure("refused")}

InitRace ==
    /\ InitWith({"linux"}, {HomeSet("/home/u")}, RaceEndpoints)
    /\ fs \in {{}, {paths(target_os, home)[1]}}

\* a caller's first invocation
InvokeOnce(c) == ncalls[c] = 0 /\ Invoke(c)

NextRace ==
    \/ Setup
    \/ WarmProbe
    \/ WarmLaunch
    \/ WarmGrace
    \/ \E c \in Callers : InvokeOnce(c)
    \/ \E c \in Callers : InitialProbe(c)
    \/ \E c \in Callers : Launch(c)
    \/ \E c \in Callers : Sleep(c)
    \/ \E c \in Callers : Poll(c)
    \/ EndpointChange(RaceEndpoints)

SpecRace == InitRace /\ [][NextRace]_vars

(***************************************************************************)
(* The supervisor in an environment that does not change: the endpoint     *)
(* keeps answering what it answered at the start.                          *)
(***************************************************************************)
NextStill ==
    \/ Setup
    \/ WarmProbe
    \/ WarmLaunch
    \/ WarmGrace
    \/ Invoke("a")
    \/ InitialProbe("a")
    \/ Launch("a")
    \/ Sleep("a")
    \/ Poll("a")
    \/ StatusCheck

SpecStill == Init /\ [][NextStill]_vars

(***************************************************************************)
(* Vocabulary of the properties.                                           *)
(***************************************************************************)
Probes(log) == Events(log, "probe")
NProbes(log) == Count(log, "probe")
NSleeps(log) == Count(log, "sleep")
NLaunches(log) == Count(log, "launch")

\* the probes made after the launch cycle: the poll attempts
PollAttempts(log) ==
    {n \in DOMAIN log : log[n].ev = "probe" /\ \E m \in 1..(n - 1) : log[m].ev = "launch"}
NPolls(log) == Cardinality(PollAttempts(log))

\* the probes that observed Reachable, numbered over the whole call
ReachableAt(log) == {n \in DOMAIN Probes(log) : Probes(log)[n].ok}

FirstUnreachable(log) == NProbes(log) >= 1 /\ ~Probes(log)[1].ok
Launched(log) == \E n \in DOMAIN log : log[n].ev = "launch" /\ log[n].ok
NoCandidate == \A k \in 1..4 : paths(target_os, home)[k] \notin fs

\* the results ensure_daemon may return (section 6 of the specification)
EnsureResults ==
    {Ok("already_running"), Ok("started"),
     Err("Could not find or start ugudu daemon"), Err("Daemon failed to start")}

(***************************************************************************)
(* C1. While the health endpoint has always been reachable, every          *)
(* ensure_daemon call that has returned, however many were made in         *)
(* succession, returned "already_running", and no call tried or spawned a  *)
(* candidate.                                                              *)
(***************************************************************************)
C1_AlreadyRunning ==
    always_up =>
        /\ \A c \in Callers :
              /\ ens[c].pc \in {"idle", "check", "done"}
              /\ ens[c].pc = "done" =>
                    /\ ens[c].result = Ok("already_running")
                    /\ ens[c].log = <<ProbeEv(TRUE)>>
              /\ NLaunches(ens[c].log) = 0
              /\ ens[c].tried = <<>>
        /\ procs = <<>>

C1_Witness ==
    /\ always_up
    /\ ncalls["a"] = MaxCalls
    /\ MaxCalls >= 2
    /\ ens["a"].pc = "done"
    /\ ens["a"].result = Ok("already_running")

(***************************************************************************)
(* C2. When the first probe of a call is Unreachable and no candidate can  *)
(* be spawned, the call is either about to run its launch cycle or has     *)
(* returned "Could not find or start ugudu daemon" having tried every      *)
(* candidate exactly once, in one launch cycle, with no probe and no sleep *)
(* after that cycle.                                                       *)
(***************************************************************************)
C2_NotFound ==
    \A c \in Callers :
        (NoCandidate /\ FirstUnreachable(ens[c].log)) =>
            \/ /\ ens[c].pc = "launch"
               /\ ens[c].log = <<ProbeEv(FALSE)>>
               /\ ens[c].tried = <<>>
            \/ /\ ens[c].pc = "done"
               /\ ens[c].result = Err("Could not find or start ugudu daemon")
               /\ ens[c].log = <<ProbeEv(FALSE), LaunchEv(FALSE)>>
               /\ Len(ens[c].tried) = 4
               /\ \A k \in 1..4 : ens[c].tried[k] = paths(target_os, home)[k]
               /\ ens[c].spawned = <<>>

C2_Witness ==
    /\ NoCandidate
    /\ ens["a"].pc = "done"
    /\ ens["a"].result = Err("Could not find or start ugudu daemon")
    /\ Len(ens["a"].tried) = 4
    /\ endpoint = Response(200)

(***************************************************************************)
(* C3 as stated. A call that returns "started" on its k-th poll attempt    *)
(* has performed exactly k probe calls.                                    *)
(***************************************************************************)
C3_Original ==
    \A c \in Callers :
        ens[c].result = Ok("started") => NProbes(ens[c].log) = NPolls(ens[c].log)

(***************************************************************************)
(* C3 as amended. A call whose k-th poll attempt is the first to observe   *)
(* Reachable returns "started" with 1 <= k <= 30, having made exactly k    *)
(* poll probes and k + 1 probe calls in all (the initial probe and the k   *)
(* polls), the Reachable one being the last thing the call did.            *)
(***************************************************************************)
C3_Started ==
    \A c \in Callers :
        LET log == ens[c].log
            k == NPolls(log)
        IN  (\E n \in PollAttempts(log) : log[n].ok) =>
                /\ ens[c].pc = "done"
                /\ ens[c].result = Ok("started")
                /\ k \in 1..30
                /\ NProbes(log) = k + 1
                /\ log[Len(log)] = ProbeEv(TRUE)
                /\ \A n \in PollAttempts(log) : log[n].ok => n = Len(log)

C3_Witness ==
    /\ ens["a"].result = Ok("started")
    /\ NPolls(ens["a"].log) = 30
    /\ NProbes(ens["a"].log) = 31

(***************************************************************************)
(* C4 as stated. A call that returns "Daemon failed to start" has          *)
(* performed exactly 30 probes, and no call performs a 31st probe.         *)
(***************************************************************************)
C4_Original ==
    \A c \in Callers :
        /\ ens[c].result = Err("Daemon failed to start") => NProbes(ens[c].log) = 30
        /\ NProbes(ens[c].log) <= 30

(***************************************************************************)
(* C4 as amended. A call that returns "Daemon failed to start" saw its     *)
(* first probe Unreachable, launched a candidate, and performed exactly 30 *)
(* poll probes, all Unreachable: 31 probe calls in all, counting the       *)
(* initial one. No call performs a 31st poll probe (a 32nd probe).         *)
(***************************************************************************)
C4_Timeout ==
    \A c \in Callers :
        LET log == ens[c].log
        IN  /\ NPolls(log) <= 30
            /\ NProbes(log) <= 31
            /\ ens[c].result = Err("Daemon failed to start") =>
                  /\ Launched(log)
                  /\ NPolls(log) = 30
                  /\ NProbes(log) = 31
                  /\ ReachableAt(log) = {}
            /\ (ens[c].pc = "done" /\ Launched(log) /\ ReachableAt(log) = {}) =>
                  ens[c].result = Err("Daemon failed to start")

C4_Witness ==
    /\ ens["a"].pc = "done"
    /\ ens["a"].result = Err("Daemon failed to start")
    /\ NProbes(ens["a"].log) = 31
    /\ Len(ens["a"].spawned) = 1

(***************************************************************************)
(* C5. With the probes of a call numbered from the initial one, a call     *)
(* that launched and then observed Reachable has returned "started", and   *)
(* the number of probes it made is the index of its first Reachable probe; *)
(* with probes 1-4 Unreachable and probe 5 Reachable that is 5 probes.     *)
(***************************************************************************)
C5_ProbeIndex ==
    \A c \in Callers :
        LET log == ens[c].log
            obs == [n \in DOMAIN Probes(log) |-> Probes(log)[n].ok]
        IN  /\ (Launched(log) /\ ReachableAt(log) # {}) =>
                  /\ ens[c].result = Ok("started")
                  /\ \A n \in ReachableAt(log) : n = NProbes(log)
            /\ ens[c].result = Ok("started") =>
                  /\ ReachableAt(log) # {}
                  /\ \A n \in ReachableAt(log) : n = NProbes(log)
            /\ (Len(obs) >= 5 /\ SubSeq(obs, 1, 5) = <<FALSE, FALSE, FALSE, FALSE, TRUE>>) =>
                  /\ ens[c].pc = "done"
                  /\ ens[c].result = Ok("started")
                  /\ NProbes(log) = 5

C5_Witness ==
    /\ ens["a"].result = Ok("started")
    /\ NProbes(ens["a"].log) = 5
    /\ [n \in 1..5 |-> Probes(ens["a"].log)[n].ok] = <<FALSE, FALSE, FALSE, FALSE, TRUE>>

ExpectedOrder ==
    CASE target_os = "linux" /\ home = HomeSet("/home/u") ->
           <<"/usr/local/bin/ugudu", "/home/u/.local/bin/ugudu",
             "/home/u/go/bin/ugudu", "ugudu">>
      [] target_os = "linux" /\ home = HomeUnset ->
           <<"/usr/local/bin/ugudu", "/.local/bin/ugudu", "/go/bin/ugudu", "ugudu">>
      [] target_os = "windows" /\ home = HomeSet("/home/u") ->
           <<"/usr/local/bin/ugudu.exe", "/home/u/.local/bin/ugudu.exe",
             "/home/u/go/bin/ugudu.exe", "ugudu.exe">>
      [] target_os = "windows" /\ home = HomeUnset ->
           <<"/usr/local/bin/ugudu.exe", "/.local/bin/ugudu.exe",
             "/go/bin/ugudu.exe", "ugudu.exe">>

LaunchCycleAsExpected(log, tried, spawned) ==
    LET S == {k \in 1..4 : ExpectedOrder[k] \in fs}
    IN  NLaunches(log) >= 1 =>
            /\ NLaunches(log) = 1
            /\ IF S = {}
               THEN /\ tried = ExpectedOrder
                    /\ spawned = <<>>
                    /\ ~Events(log, "launch")[1].ok
               ELSE LET m == CHOOSE k \in S : \A j \in S : k <= j
                    IN  /\ tried = SubSeq(ExpectedOrder, 1, m)
                        /\ spawned = <<ExpectedOrder[m]>>
                        /\ Events(log, "launch")[1].ok

(***************************************************************************)
(* C6. The launcher tries the candidates in the order /usr/local/bin,      *)
(* $HOME/.local/bin, $HOME/go/bin, bare name; whatever subset of them is   *)
(* spawnable, a launch cycle tries the candidates up to and including the  *)
(* earliest spawnable one, spawns exactly that one, and reports Started;   *)
(* with none spawnable it tries all four and reports NotFound.             *)
(***************************************************************************)
C6_LaunchOrder ==
    /\ LaunchCycleAsExpected(warm.log, warm.tried, warm.spawned)
    /\ \A c \in Callers : LaunchCycleAsExpected(ens[c].log, ens[c].tried, ens[c].spawned)
    /\ \A n \in DOMAIN procs : procs[n] \in fs

C6_Witness ==
    /\ target_os = "linux"
    /\ home = HomeSet("/home/u")
    /\ fs = {"/home/u/.local/bin/ugudu", "ugudu", "/go/bin/ugudu"}
    /\ ens["a"].tried = <<"/usr/local/bin/ugudu", "/home/u/.local/bin/ugudu">>
    /\ ens["a"].spawned = <<"/home/u/.local/bin/ugudu">>
    /\ warm.spawned = <<"/home/u/.local/bin/ugudu">>

(***************************************************************************)
(* C7. The prober is total: whatever the endpoint does (a success-class    *)
(* response, another response, connection refused, timeout, another        *)
(* transport error) a probe yields a boolean, TRUE exactly when a response *)
(* with a success-class status was received, after exactly one request.    *)
(***************************************************************************)
C7_ProbeTotal ==
    /\ stat.pc = "done" =>
          /\ Len(stat.log) = 1
          /\ stat.log[1].ok \in BOOLEAN
          /\ stat.log[1].ok <=> SuccessClass(stat.seen)
          /\ stat.reqs = 1
    /\ \A n \in DOMAIN warm.log : warm.log[n].ok \in BOOLEAN
    /\ warm.reqs = NProbes(warm.log)

C7_Witness ==
    /\ stat.pc = "done"
    /\ stat.seen = Failure("timeout")
    /\ stat.log = <<ProbeEv(FALSE)>>
    /\ endpoint = Response(404)

(***************************************************************************)
(* C8. get_daemon_status, in whatever state it runs, makes exactly one     *)
(* probe and no launch or sleep, returns "running" iff that probe saw a    *)
(* success-class response and the failure "Daemon is not running"          *)
(* otherwise, and leaves the spawned processes and every other call        *)
(* unchanged.                                                              *)
(***************************************************************************)
C8_StatusCheck ==
    [][stat' # stat =>
          /\ stat'.pc = "done"
          /\ stat'.seen = endpoint
          /\ stat'.log = <<ProbeEv(SuccessClass(endpoint))>>
          /\ stat'.reqs = 1
          /\ stat'.result = IF SuccessClass(endpoint)
                            THEN Ok("running")
                            ELSE Err("Daemon is not running")
          /\ procs' = procs
          /\ ens' = ens
          /\ warm' = warm
          /\ endpoint' = endpoint]_vars

C8_Witness ==
    /\ stat.result = Err("Daemon is not running")
    /\ stat.seen = endpoint
    /\ ens["a"].pc = "poll"
    /\ warm.pc = "launch"
    /\ Len(procs) = 1
    /\ ~NoCandidate

(***************************************************************************)
(* C9. Every ensure_daemon call in flight eventually returns, whatever the *)
(* endpoint does and whatever the warm-up and get_daemon_status do         *)
(* meanwhile, provided its probes and sleeps complete; the poll loop is    *)
(* left only by returning, either "started" on a Reachable probe or        *)
(* "Daemon failed to start" after 30 polls; and the value returned is one  *)
(* of the four results.                                                    *)
(***************************************************************************)
C9_Returns ==
    /\ \A c \in Callers :
          (ens[c].pc \in {"check", "launch", "sleep", "poll"}) ~> (ens[c].pc = "done")
    /\ [](\A c \in Callers : ens[c].pc = "done" => ens[c].result \in EnsureResults)
    /\ [][\A c \in Callers :
            (ens[c].pc \in {"sleep", "poll"} /\ ens'[c].pc \notin {"sleep", "poll"}) =>
                /\ ens'[c].pc = "done"
                /\ \/ /\ ens'[c].result = Ok("started")
                      /\ ens'[c].log[Len(ens'[c].log)] = ProbeEv(TRUE)
                   \/ /\ ens'[c].result = Err("Daemon failed to start")
                      /\ NPolls(ens'[c].log) = 30]_vars

C9_Witness ==
    /\ ens["a"].pc = "done"
    /\ ens["a"].result = Err("Daemon failed to start")
    /\ ncalls["a"] = 2
    /\ warm.pc = "done"
    /\ stat.pc = "done"

IsPrefix(p, q) == Len(p) <= Len(q) /\ SubSeq(q, 1, Len(p)) = p

(***************************************************************************)
(* C10. The warm-up makes exactly one probe in its whole run. If it saw    *)
(* Reachable it does nothing more. If it saw Unreachable it runs one       *)
(* launch cycle and then sleeps the 2 s grace period, whether the launch   *)
(* reported Started or NotFound, never probes again, and completes with    *)
(* the unit value: the launcher's error is discarded.                      *)
(***************************************************************************)
C10_WarmUp ==
    /\ \/ IsPrefix(warm.log, <<ProbeEv(TRUE)>>)
       \/ IsPrefix(warm.log, <<ProbeEv(FALSE), LaunchEv(~NoCandidate), SleepEv(2000)>>)
    /\ warm.pc = "done" =>
          /\ \/ warm.log = <<ProbeEv(TRUE)>>
             \/ warm.log = <<ProbeEv(FALSE), LaunchEv(~NoCandidate), SleepEv(2000)>>
          /\ warm.out = Ok("()")
    /\ warm.pc \in {"launch", "grace"} => ~warm.log[1].ok
    /\ warm.pc = "grace" => Len(warm.log) = 2
    /\ Len(warm.spawned) <= 1

C10_Witness ==
    /\ warm.pc = "done"
    /\ warm.log = <<ProbeEv(FALSE), LaunchEv(FALSE), SleepEv(2000)>>
    /\ warm.out = Ok("()")
    /\ endpoint = Response(200)

(***************************************************************************)
(* C11. Nothing serialises the probe-then-launch step: every call, and the *)
(* warm-up, that ran its launch cycle with a candidate spawnable spawned a *)
(* daemon process of its own, whatever the others had already spawned, so  *)
(* the processes spawned are those of the warm-up and of each call added   *)
(* up; with the warm-up and two calls in flight together that is up to     *)
(* three processes.                                                        *)
(***************************************************************************)
C11_NoSerialisation ==
    /\ \A c \in Callers :
          NLaunches(ens[c].log) >= 1 =>
              /\ FirstUnreachable(ens[c].log)
              /\ Len(ens[c].spawned) = IF NoCandidate THEN 0 ELSE 1
    /\ NLaunches(warm.log) >= 1 =>
          /\ FirstUnreachable(warm.log)
          /\ Len(warm.spawned) = IF NoCandidate THEN 0 ELSE 1
    /\ Len(procs) = Len(warm.spawned) + Len(ens["a"].spawned) + Len(ens["b"].spawned)

C11_Witness ==
    /\ warm.pc = "grace"
    /\ ens["a"].pc = "sleep"
    /\ ens["b"].pc = "sleep"
    /\ ens["a"].log = <<ProbeEv(FALSE), LaunchEv(TRUE)>>
    /\ ens["b"].log = <<ProbeEv(FALSE), LaunchEv(TRUE)>>
    /\ Len(warm.spawned) = 1
    /\ Len(ens["a"].spawned) = 1
    /\ Len(ens["b"].spawned) = 1
    /\ Len(procs) = 3

(***************************************************************************)
(* C12. The poll loop of a call is strictly sequential, one probe per      *)
(* interval: every sleep lasts 500 ms, comes after the launch or after an  *)
(* Unreachable probe and is followed by exactly one probe; every poll      *)
(* probe comes directly after exactly one sleep; the sleeps outnumber the  *)
(* poll probes by at most the one probe that is due; a call never sleeps   *)
(* more than 30 times, and one that timed out slept exactly 30 intervals.  *)
(***************************************************************************)
C12_Sequential ==
    \A c \in Callers :
        LET log == ens[c].log
        IN  /\ NSleeps(log) <= 30
            /\ \A n \in DOMAIN log :
                  log[n].ev = "sleep" =>
                      /\ log[n].ms = 500
                      /\ n >= 3
                      /\ \/ log[n - 1] = LaunchEv(TRUE)
                         \/ log[n - 1] = ProbeEv(FALSE)
                      /\ IF n < Len(log)
                         THEN log[n + 1].ev = "probe"
                         ELSE ens[c].pc = "poll"
            /\ \A n \in PollAttempts(log) :
                  /\ log[n - 1] = SleepEv(500)
                  /\ log[n - 2].ev # "sleep"
            /\ NSleeps(log) = NPolls(log) + (IF ens[c].pc = "poll" THEN 1 ELSE 0)
            /\ ens[c].result = Err("Daemon failed to start") =>
                  /\ NSleeps(log) = 30
                  /\ NSleeps(log) * 500 = 15000

C12_Witness ==
    /\ ens["a"].result = Err("Daemon failed to start")
    /\ NSleeps(ens["a"].log) = 30
    /\ NPolls(ens["a"].log) = 30
    /\ warm.pc = "done"

(***************************************************************************)
(* C13. The results of ensure_daemon identify their cause: "Could not find *)
(* or start ugudu daemon" iff the initial probe was Unreachable and the    *)
(* launch cycle spawned nothing; "Daemon failed to start" iff the initial  *)
(* probe was Unreachable, a candidate spawned and all 30 poll probes were  *)
(* Unreachable; "started" only after a spawn in this call and a later      *)
(* Reachable probe; "already_running" only when the initial probe was      *)
(* Reachable.                                                              *)
(***************************************************************************)
C13_Causes ==
    \A c \in Callers :
        LET log == ens[c].log
        IN  IF ens[c].pc # "done"
            THEN ens[c].result = NoResult
            ELSE /\ ens[c].result = Err("Could not find or start ugudu daemon") <=>
                       /\ FirstUnreachable(log)
                       /\ NLaunches(log) = 1
                       /\ ens[c].spawned = <<>>
                 /\ ens[c].result = Err("Daemon failed to start") <=>
                       /\ FirstUnreachable(log)
                       /\ Len(ens[c].spawned) = 1
                       /\ NPolls(log) = 30
                       /\ ReachableAt(log) = {}
                 /\ ens[c].result = Ok("started") =>
                       /\ FirstUnreachable(log)
                       /\ Len(ens[c].spawned) = 1
                       /\ \E n \in PollAttempts(log) : log[n].ok
                 /\ ens[c].result = Ok("already_running") =>
                       /\ log = <<ProbeEv(TRUE)>>
                       /\ ens[c].spawned = <<>>

C13_Witness ==
    /\ ens["a"].pc = "done"
    /\ ens["a"].result = Err("Could not find or start ugudu daemon")
    /\ stat.result = Err("Daemon is not running")
    /\ warm.pc = "done"
    /\ ncalls["a"] = 1

(***************************************************************************)
(* C16. One ensure_daemon call runs the launch cycle at most once and      *)
(* spawns at most one process: the cycle comes directly after the call's   *)
(* Unreachable initial probe, is not run again during the poll loop or     *)
(* after it, and no candidate is tried twice in the call.                  *)
(***************************************************************************)
C16_OneLaunch ==
    \A c \in Callers :
        LET log == ens[c].log
        IN  /\ NLaunches(log) <= 1
            /\ Len(ens[c].spawned) <= 1
            /\ \A n \in DOMAIN log :
                  log[n].ev = "launch" => (n = 2 /\ log[1] = ProbeEv(FALSE))
            /\ Len(ens[c].tried) <= 4
            /\ \A j, k \in DOMAIN ens[c].tried :
                  ens[c].tried[j] = ens[c].tried[k] => j = k
            /\ NLaunches(log) = 0 => ens[c].tried = <<>>

C16_Witness ==
    /\ ens["a"].result = Err("Daemon failed to start")
    /\ NLaunches(ens["a"].log) = 1
    /\ Len(ens["a"].tried) = 3
    /\ Len(ens["a"].spawned) = 1

(***************************************************************************)
(* C14. ensure_daemon is idempotent with respect to launches: in an        *)
(* unchanged environment a call made after an earlier call of the same     *)
(* caller has returned, whatever that call returned, spawns no further     *)
(* daemon process.                                                         *)
(***************************************************************************)
C14_Idempotent ==
    \A c \in Callers : ncalls[c] >= 2 => ens[c].spawned = <<>>

(***************************************************************************)
(* C15 as stated. A daemon process is spawned only while the health        *)
(* endpoint is not reachable at the moment of the spawn.                   *)
(***************************************************************************)
C15_Original ==
    [][Len(procs') > Len(procs) => ~SuccessClass(endpoint)]_vars

(***************************************************************************)
(* C15 as amended. A daemon process is spawned only by an ensure_daemon    *)
(* call or the warm-up whose own probe, the last thing it did before the   *)
(* launch step, observed Unreachable; the endpoint may have become         *)
(* reachable since that probe.                                             *)
(***************************************************************************)
C15_ProbedAbsent ==
    [][Len(procs') > Len(procs) =>
          /\ Len(procs') = Len(procs) + 1
          /\ \/ /\ Len(warm'.spawned) = Len(warm.spawned) + 1
                /\ warm.log = <<ProbeEv(FALSE)>>
                /\ ens' = ens
             \/ \E c \in Callers :
                   /\ Len(ens'[c].spawned) = Len(ens[c].spawned) + 1
                   /\ ens[c].log = <<ProbeEv(FALSE)>>
                   /\ warm' = warm]_vars

C15_Witness ==
    /\ SuccessClass(endpoint)
    /\ ens["a"].log = <<ProbeEv(FALSE), LaunchEv(TRUE)>>
    /\ warm.log = <<ProbeEv(FALSE), LaunchEv(TRUE)>>
    /\ Len(procs) = 2
    /\ ~always_up

(***************************************************************************)
(* C17. With HOME unavailable the launcher builds the four candidates in   *)
(* the same order with an empty home segment and raises no error, and the  *)
(* two home-based candidates never resolve, so that a launch cycle spawns  *)
(* only the system-directory candidate or the bare name and reports        *)
(* Started iff one of those two is spawnable.                              *)
(***************************************************************************)
HomeUnsetCycle(log, tried, spawned) ==
    NLaunches(log) >= 1 =>
        /\ IsPrefix(tried, ExpectedOrder)
        /\ \A n \in DOMAIN spawned : spawned[n] \in {ExpectedOrder[1], ExpectedOrder[4]}
        /\ Events(log, "launch")[1].ok <=>
              (ExpectedOrder[1] \in fs \/ ExpectedOrder[4] \in fs)

C17_HomeUnset ==
    home = HomeUnset =>
        /\ HomeUnsetCycle(warm.log, warm.tried, warm.spawned)
        /\ \A c \in Callers : HomeUnsetCycle(ens[c].log, ens[c].tried, ens[c].spawned)

(***************************************************************************)
(* C18. No failure path of the supervisor aborts the host application: the *)
(* setup hook, get_daemon_status, ensure_daemon and the warm-up never      *)
(* panic.                                                                  *)
(***************************************************************************)
C18_NoAbort == app # "panicked"

====
